---- MODULE Spec2Model ----
(***************************************************************************)
(* A model of roicat/data_importing.py: the constructors of Data_suite2p   *)
(* and Data_caiman, stepped method by method, and                          *)
(* Data_custom.get_sess_id_concat.                                         *)
(*                                                                         *)
(* Representation.                                                         *)
(*  - A weight is a rational num/den.  One footprint row keeps one         *)
(*    denominator: [den |-> d, ents |-> <<  <<flat, num>>, ... >>], the    *)
(*    stored entries of a CSR row in increasing flat index.  den = 0       *)
(*    with stored entries is 0/0, i.e. every stored value is NaN (the      *)
(*    weights of the model are never negative).                            *)
(*  - A session's footprint matrix is [shape |-> <<n_roi, ncols>>,         *)
(*    rows |-> <<row, ...>>].                                              *)
(*  - A dense array is kept as its shape and the set of its entries that   *)
(*    are not zero.                                                        *)
(*  - Arithmetic that the code does in float is done exactly.              *)
(***************************************************************************)
EXTENDS Integers, Sequences, FiniteSets, TLC

(***************************************************************************)
(* Bounds of the model.                                                    *)
(***************************************************************************)
MaxRoi == 3
MaxSessions == 3
MaxLabelFiles == 2
MaxCpus == 3
MaxCalls == 2
\* The two frames of the model, height by width.  Both are larger than the
\* 36 x 36 patch, as the frames of a microscope are.
TallH == 40
TallW == 38
WideH == 37
WideW == 41

(***************************************************************************)
(* Machine integers.  TLC's integers are 32 bit wide, so the 64 bit words  *)
(* of numpy are modelled at width 30: every index of the model is far      *)
(* below 2^10, so a wrapped value is out of every array of the model just  *)
(* as it is at width 64.                                                   *)
(***************************************************************************)
WordModulus == 2^30

\* np.uint64 arithmetic: the result modulo the word.
U64(v) == v % WordModulus

\* np.int64 arithmetic: two's complement wrap.
I64(v) == ((v + WordModulus \div 2) % WordModulus) - WordModulus \div 2

\* The smallest np.int64.
Int64Min == -(WordModulus \div 2)

\* What a NaN becomes under .astype(np.int64): undefined in C; builds give the
\* smallest int64 (x86-64) or 0 (aarch64).
NaNCastOutcomes == {Int64Min, 0}

\* A rounded float before the cast: <<v>>, or NaN.
NaN == <<>>

Min(a, b) == IF a <= b THEN a ELSE b

RECURSIVE SumSeq(_)
SumSeq(s) == IF s = <<>> THEN 0 ELSE Head(s) + SumSeq(Tail(s))

RECURSIVE SetToSortedSeq(_)
SetToSortedSeq(S) ==
  IF S = {} THEN <<>>
  ELSE LET m == CHOOSE x \in S : \A y \in S : x <= y
       IN <<m>> \o SetToSortedSeq(S \ {m})

RECURSIVE Concat(_)
Concat(ss) == IF ss = <<>> THEN <<>> ELSE Head(ss) \o Concat(Tail(ss))

\* np.round of the rational n/d (n >= 0, d > 0): to nearest, halves to even.
Round_half_even(n, d) ==
  LET q == n \div d
      r == n % d
  IN IF 2 * r < d THEN q
     ELSE IF 2 * r > d THEN q + 1
     ELSE IF q % 2 = 0 THEN q ELSE q + 1

\* Sequences over S of length lo..hi.
SeqsOf(S, lo, hi) == UNION {[1..n -> S] : n \in lo..hi}

(***************************************************************************)
(* Program constants.                                                      *)
(***************************************************************************)
\* sf_to_centeredROIs overwrites its out_height_width argument with
\* np.array([36,36]).
HardCodedOutSize == 36

(***************************************************************************)
(* The session-membership matrix.                                          *)
(***************************************************************************)
\* helpers.idx2bool(idx, length): the one-hot boolean vector of that length
\* (sessions are numbered from 1 here).
idx2bool(idx, length) == [j \in 1..length |-> j = idx]

\* np.array([row] * k): k stacked copies of row; no copy is np.array([]),
\* the empty 1-D array.
RepeatRows(row, k) ==
  IF k = 0 THEN [ndim |-> 1, shape |-> <<0>>, rows |-> <<>>]
  ELSE [ndim |-> 2, shape |-> <<k, Len(row)>>, rows |-> [i \in 1..k |-> row]]

\* np.atleast_2d: a 1-D array of length L becomes the 1 x L array.
atleast_2d(a) ==
  IF a.ndim = 1
  THEN [ndim |-> 2, shape |-> <<1, a.shape[1]>>, rows |-> <<a.rows>>]
  ELSE a

\* np.vstack: the blocks made 2-D and concatenated along axis 0; blocks of
\* different widths (or no block) raise ValueError.
np_vstack(blocks) ==
  LET bs == [i \in DOMAIN blocks |-> atleast_2d(blocks[i])]
  IN IF Len(bs) = 0 \/ \E i \in DOMAIN bs : bs[i].shape[2] # bs[1].shape[2]
     THEN [ok |-> FALSE, err |-> "ValueError", val |-> <<>>]
     ELSE [ok |-> TRUE, err |-> "",
           val |-> [shape |-> <<SumSeq([i \in DOMAIN bs |-> bs[i].shape[1]]),
                                bs[1].shape[2]>>,
                    rows |-> Concat([i \in DOMAIN bs |-> bs[i].rows])]]

\* The expression that builds sessionID_concat from the footprint matrices.
BlocksOf(sfs) ==
  [i \in DOMAIN sfs |-> RepeatRows(idx2bool(i, Len(sfs)), sfs[i].shape[1])]

sessionID_concat_of(sfs) == np_vstack(BlocksOf(sfs))

(***************************************************************************)
(* Suite2p adapter.                                                        *)
(***************************************************************************)
\* A ROI record of a stat file is a sequence of pixels <<ypix, xpix, lam>>.
SumLam(roi) == SumSeq([k \in DOMAIN roi |-> roi[k][3]])

\* One pass of the loop of _helper_populate_sf: the row of one ROI.
\* csr_array sums the weights given for one pixel, rejects a pixel outside the
\* frame, and keeps every other given pixel as a stored entry.
populate_row(roi, fhw, shifts) ==
  LET ypix(k) == U64(roi[k][1] + shifts[1])
      xpix(k) == U64(roi[k][2] + shifts[2])
      inside == \A k \in DOMAIN roi : ypix(k) < fhw[1] /\ xpix(k) < fhw[2]
      flat(k) == ypix(k) * fhw[2] + xpix(k)
      flats  == SetToSortedSeq({flat(k) : k \in DOMAIN roi})
      num(f) == SumSeq([k \in DOMAIN roi |-> IF flat(k) = f THEN roi[k][3] ELSE 0])
  IN IF ~inside THEN [ok |-> FALSE, den |-> 0, ents |-> <<>>]
     ELSE [ok |-> TRUE, den |-> SumLam(roi),
           ents |-> [i \in DOMAIN flats |-> <<flats[i], num(flats[i])>>]]

\* A _helper_populate_sf that refuses a ROI whose weights sum to zero.
_helper_populate_sf_guarded(n_roi, frame_height_width, stat, shifts) ==
  LET rows == [j \in DOMAIN stat |-> populate_row(stat[j], frame_height_width, shifts)]
  IN IF Len(stat) = 0 \/ \E j \in DOMAIN rows : ~rows[j].ok \/ SumLam(stat[j]) = 0
     THEN [ok |-> FALSE, err |-> "ValueError", val |-> <<>>]
     ELSE [ok |-> TRUE, err |-> "",
           val |-> [shape |-> <<Len(stat), frame_height_width[1] * frame_height_width[2]>>,
                    rows |-> [j \in DOMAIN rows |-> [den |-> rows[j].den, ents |-> rows[j].ents]]]]

\* _helper_populate_sf for the float dtype (the one the constructor asks for).
\* scipy.sparse.vstack of no row raises ValueError.
_helper_populate_sf(n_roi, frame_height_width, stat, shifts) ==
  LET rows == [j \in DOMAIN stat |-> populate_row(stat[j], frame_height_width, shifts)]
  IN IF Len(stat) = 0 \/ \E j \in DOMAIN rows : ~rows[j].ok
     THEN [ok |-> FALSE, err |-> "ValueError", val |-> <<>>]
     ELSE [ok |-> TRUE, err |-> "",
           val |-> [shape |-> <<Len(stat), frame_height_width[1] * frame_height_width[2]>>,
                    rows |-> [j \in DOMAIN rows |-> [den |-> rows[j].den, ents |-> rows[j].ents]]]]

(***************************************************************************)
(* CaImAn adapter.                                                         *)
(***************************************************************************)
\* estimates.A is a CSC matrix of shape (H*W, n): here [shape |-> <<H*W, n>>,
\* cols |-> the stored <<index, value>> entries of each column, in order].
\* Read as CSR with the shape reversed it is the (n, H*W) matrix whose rows
\* are those columns.
csr_reversed(A) == [shape |-> <<A.shape[2], A.shape[1]>>, rows |-> A.cols]

\* The reshape without the transpose: the flat index is kept.
F_to_C_no_transpose(p, FOV_height, FOV_width) == p

\* Fortran-flattened index p of a (FOV_height, FOV_width) frame to the
\* C-flattened index: reshape to (FOV_width, FOV_height), transpose, reshape.

F_to_C(p, FOV_height, FOV_width) ==
  LET a == p \div FOV_height
      b == p % FOV_height
  IN b * FOV_width + a

\* _import_spatialFootprints of one results file.
_import_spatialFootprints(data, include_discarded) ==
  LET FOV_height == data.dims[1]
      FOV_width == data.dims[2]
      sf_included == csr_reversed(data.A)
      sf_discarded == csr_reversed(data.discarded)
      stackable == sf_included.shape[2] = sf_discarded.shape[2]
      sf_F == IF include_discarded
              THEN [shape |-> <<sf_included.shape[1] + sf_discarded.shape[1],
                                sf_included.shape[2]>>,
                    rows |-> sf_included.rows \o sf_discarded.rows]
              ELSE sf_included
      conv(row) ==
        LET fl == [k \in DOMAIN row |-> F_to_C(row[k][1], FOV_height, FOV_width)]
            sorted == SetToSortedSeq({fl[k] : k \in DOMAIN row})
            val(f) == (CHOOSE k \in DOMAIN row : fl[k] = f)
        IN [den |-> 1, ents |-> [i \in DOMAIN sorted |-> <<sorted[i], row[val(sorted[i])][2]>>]]
  IN IF (include_discarded /\ ~stackable) \/ sf_F.shape[2] # FOV_width * FOV_height
     THEN [ok |-> FALSE, err |-> "ValueError", val |-> <<>>]
     ELSE [ok |-> TRUE, err |-> "",
           val |-> [shape |-> <<sf_F.shape[1], FOV_width * FOV_height>>,
                    rows |-> [j \in DOMAIN sf_F.rows |-> conv(sf_F.rows[j])]]]

\* The indptr array of a CSC matrix: where each column starts in the data,
\* and the end of the last one.
indptr(A) ==
  [i \in 1..(Len(A.cols) + 1) |-> SumSeq([j \in 1..(i - 1) |-> Len(A.cols[j])])]

\* _import_overall_caiman_labels: ones for estimates.A, then zeros for the
\* discarded components.
_import_overall_caiman_labels(data, include_discarded) ==
  LET labels_included == [i \in DOMAIN indptr(data.A) |-> 1]
      labels_discarded == [i \in DOMAIN indptr(data.discarded) |-> 0]
  IN IF include_discarded THEN labels_included \o labels_discarded ELSE labels_included

(***************************************************************************)
(* Centroids.                                                              *)
(***************************************************************************)
\* The stored values of a row are NaN (0/0).
RowIsNaN(row) == row.den = 0 /\ Len(row.ents) > 0

\* The sum of the numerators of a row: its total weight times row.den.
RowMass(row) == SumSeq([k \in DOMAIN row.ents |-> row.ents[k][2]])

\* The numerator of w_wt[h]: the weight of FOV row h (axis = 1 for the rows of
\* the frame, 2 for its columns).
AxisIndex(flat, FOV_width, axis) == IF axis = 1 THEN flat \div FOV_width ELSE flat % FOV_width

MarginalMass(row, FOV_width, axis, h) ==
  SumSeq([k \in DOMAIN row.ents |->
            IF AxisIndex(row.ents[k][1], FOV_width, axis) = h THEN row.ents[k][2] ELSE 0])

\* The index of the first stored entry, whatever the weights.
first_index(row, FOV_width, axis) ==
  IF RowIsNaN(row) \/ RowMass(row) = 0 THEN NaN
  ELSE <<AxisIndex(row.ents[1][1], FOV_width, axis)>>

\* sum(marginal * arange) / sum(marginal), rounded: NaN when the mass is 0 or NaN.
weighted_mean(row, FOV_width, axis) ==
  LET moment == SumSeq([k \in DOMAIN row.ents |->
                          AxisIndex(row.ents[k][1], FOV_width, axis) * row.ents[k][2]])
  IN IF RowIsNaN(row) \/ RowMass(row) = 0 THEN NaN
     ELSE <<Round_half_even(moment, RowMass(row))>>

\* The median of a set of integers, rounded; NaN for the empty set (np.nanmedian
\* of an all-NaN slice).
rounded_median(S) ==
  LET srt == SetToSortedSeq(S)
      n == Len(srt)
  IN IF n = 0 THEN NaN
     ELSE IF n % 2 = 1 THEN <<srt[(n + 1) \div 2]>>
     ELSE <<Round_half_even(srt[n \div 2] + srt[n \div 2 + 1], 2)>>

\* The indices h of an axis at which (marginal != 0) holds: the marginal is
\* NaN (and so != 0) where a NaN row stores an entry, and 0 where the row
\* stores none.
Touched(row, FOV_width, axis) ==
  {h \in {AxisIndex(row.ents[k][1], FOV_width, axis) : k \in DOMAIN row.ents} :
     RowIsNaN(row) \/ MarginalMass(row, FOV_width, axis, h) # 0}

\* Data_caiman's median branch: (marginal != 0) * arange, the zeros of the
\* product made NaN, np.nanmedian.  The product is 0 at index 0 too.
median_index(row, FOV_width, axis) ==
  rounded_median({h \in Touched(row, FOV_width, axis) : 1 * h # 0})

\* .astype(np.int64) of a rounded float.
astype_int64(v, nan_as) == IF v = NaN THEN nan_as ELSE v[1]

\* A get_centroids that falls back on the weighted mean for an unknown method.
caiman_get_centroids_fallback(sf, FOV_height, FOV_width, centroid_method, nan_as) ==
  IF sf.shape[2] # FOV_height * FOV_width
  THEN [ok |-> FALSE, err |-> "ValueError", val |-> <<>>]
  ELSE IF centroid_method = "median"
  THEN [ok |-> TRUE, err |-> "",
        val |-> [j \in DOMAIN sf.rows |->
                   <<astype_int64(median_index(sf.rows[j], FOV_width, 1), nan_as),
                     astype_int64(median_index(sf.rows[j], FOV_width, 2), nan_as)>>]]
  ELSE [ok |-> TRUE, err |-> "",
        val |-> [j \in DOMAIN sf.rows |->
                   <<astype_int64(weighted_mean(sf.rows[j], FOV_width, 1), nan_as),
                     astype_int64(weighted_mean(sf.rows[j], FOV_width, 2), nan_as)>>]]

\* get_centroids of Data_caiman: [ok, err, val], val the (row, col) pair of each
\* ROI (the transposed result the constructor stores).  nan_as is what the
\* build makes of NaN in the cast.
caiman_get_centroids(sf, FOV_height, FOV_width, centroid_method, nan_as) ==
  IF sf.shape[2] # FOV_height * FOV_width
  THEN [ok |-> FALSE, err |-> "ValueError", val |-> <<>>]
  ELSE IF centroid_method = "centroid"
  THEN [ok |-> TRUE, err |-> "",
        val |-> [j \in DOMAIN sf.rows |->
                   <<astype_int64(weighted_mean(sf.rows[j], FOV_width, 1), nan_as),
                     astype_int64(weighted_mean(sf.rows[j], FOV_width, 2), nan_as)>>]]
  ELSE IF centroid_method = "median"
  THEN [ok |-> TRUE, err |-> "",
        val |-> [j \in DOMAIN sf.rows |->
                   <<astype_int64(median_index(sf.rows[j], FOV_width, 1), nan_as),
                     astype_int64(median_index(sf.rows[j], FOV_width, 2), nan_as)>>]]
  ELSE [ok |-> FALSE, err |-> "ValueError: Only valid methods", val |-> <<>>]

\* get_centroids of Data_suite2p followed by the .T of the constructor: the
\* median branch returns None, and None has no attribute T.
suite2p_get_centroids(sf, FOV_height, FOV_width, centroid_method, nan_as) ==
  IF sf.shape[2] # FOV_height * FOV_width
  THEN [ok |-> FALSE, err |-> "ValueError", val |-> <<>>]
  ELSE IF centroid_method = "centroid"
  THEN [ok |-> TRUE, err |-> "",
        val |-> [j \in DOMAIN sf.rows |->
                   <<astype_int64(weighted_mean(sf.rows[j], FOV_width, 1), nan_as),
                     astype_int64(weighted_mean(sf.rows[j], FOV_width, 2), nan_as)>>]]
  ELSE IF centroid_method = "median"
  THEN [ok |-> FALSE, err |-> "AttributeError", val |-> <<>>]
  ELSE [ok |-> FALSE, err |-> "ValueError: Only valid methods", val |-> <<>>]

(***************************************************************************)
(* ROI-centered images.                                                    *)
(***************************************************************************)
\* sparse.COO(sf).reshape((n_roi, FOV_height, FOV_width)): the stored entries
\* <<roi, row, col, num, den>> in storage order (roi counted from 0).
coo_entries(sf, FOV_width) ==
  Concat([j \in DOMAIN sf.rows |->
            [k \in DOMAIN sf.rows[j].ents |->
               <<j - 1,
                 sf.rows[j].ents[k][1] \div FOV_width,
                 sf.rows[j].ents[k][1] % FOV_width,
                 sf.rows[j].ents[k][2],
                 sf.rows[j].den>>]])

\* The assertion on np.diff(sf_rs.coords[0]): every step is 0 or 1.
coords_ok(E) ==
  \A p \in 1..(Len(E) - 1) : E[p + 1][1] - E[p][1] \in {0, 1}

\* A stored value is > 0.
Positive(e) == e[5] > 0 /\ e[4] > 0

\* A stored value that is not zero in the dense array (NaN included).
NonZeroDense(e) == ~(e[5] > 0 /\ e[4] = 0)

\* idx_split: the cumulative counts of the entries > 0 of each ROI but the last.
idx_split(sf, E) ==
  LET cnt(j) == Cardinality({p \in DOMAIN E : E[p][1] = j - 1 /\ Positive(E[p])})
  IN [j \in 1..(sf.shape[1] - 1) |-> SumSeq([i \in 1..j |-> cnt(i)])]

\* The group (counted from 1) np.split puts position p (counted from 1) in.
group_of(splits, p) == 1 + Cardinality({j \in DOMAIN splits : splits[j] < p})

\* sf_to_centeredROIs: [ok, err, val], val the dense (n_roi, h, w) array.
\* centroids[j] is the (row, col) of ROI j.
sf_to_centeredROIs(sf, centroids, out_height_width, FOV_height, FOV_width) ==
  LET size == <<HardCodedOutSize, HardCodedOutSize>>
      half_widths == <<(size[1] + 1) \div 2, (size[2] + 1) \div 2>>
      E == coo_entries(sf, FOV_width)
      splits == idx_split(sf, E)
      moved(p) ==
        LET g == group_of(splits, p)
        IN <<E[p][1],
             I64(E[p][2] - centroids[g][1] + half_widths[1]),
             I64(E[p][3] - centroids[g][2] + half_widths[2]),
             E[p][4], E[p][5]>>
      h == Min(size[1], FOV_height)
      w == Min(size[2], FOV_width)
  IN IF sf.shape[2] # FOV_height * FOV_width
     THEN [ok |-> FALSE, err |-> "ValueError", val |-> <<>>]
     ELSE IF ~coords_ok(E)
     THEN [ok |-> FALSE, err |-> "AssertionError", val |-> <<>>]
     ELSE IF sf.shape[1] = 0
     THEN [ok |-> FALSE, err |-> "IndexError", val |-> <<>>]
     ELSE [ok |-> TRUE, err |-> "",
           val |-> [shape |-> <<sf.shape[1], h, w>>,
                    ents |-> {<<moved(p)[1] + 1, moved(p)[2], moved(p)[3],
                                moved(p)[4], moved(p)[5]>> :
                               p \in {q \in DOMAIN E :
                                        /\ moved(q)[2] >= 0 /\ moved(q)[2] < h
                                        /\ moved(q)[3] >= 0 /\ moved(q)[3] < w
                                        /\ NonZeroDense(E[q])}}]]

(***************************************************************************)
(* Labels.                                                                 *)
(***************************************************************************)
\* helpers.squeeze_integers: the labels re-mapped, in order, onto 0..k-1.
squeeze_integers(v) ==
  [i \in DOMAIN v |-> Cardinality({x \in {v[j] : j \in DOMAIN v} : x < v[i]})]

(***************************************************************************)
(* The inputs of the model.                                                *)
(*                                                                         *)
(* A mask is the pixel list <<y, x, weight>> of one ROI.  The same masks   *)
(* feed both adapters: as the ROI records of a stat file, and flattened    *)
(* column-major into the columns of estimates.A.                           *)
(***************************************************************************)
\* The masks tried in a frame of the given size: no pixel; one pixel at the
\* origin; one pixel in the far corner; a symmetric one-pixel-wide line in
\* row 0 from column 0; one pixel of weight 0; a pixel of weight 0 above a
\* pixel of weight 1; two pixels in opposite corners; two equal neighbours.
Catalogue(fov) ==
  { <<>>,
    << <<0, 0, 1>> >>,
    << <<fov[1] - 1, fov[2] - 1, 2>> >>,
    << <<0, 0, 1>>, <<0, 1, 2>>, <<0, 2, 1>> >>,
    << <<1, 1, 0>> >>,
    << <<0, 1, 0>>, <<1, 1, 1>> >>,
    << <<0, 0, 1>>, <<fov[1] - 1, fov[2] - 1, 1>> >>,
    << <<1, 1, 1>>, <<1, 2, 1>> >> }

FOVs == {<<TallH, TallW>>, <<WideH, WideW>>}

Methods == {"centroid", "median", "mean"}

\* Requested patch sizes.
OutSizes == {<<36, 36>>, <<24, 20>>}

\* The lowest valid row and column of the ops files of the 'old' convention.
YMins == {0, 1, 5}
XMins == {1, 3}

LabelArrays == {<<5>>, <<7, 5>>, <<5, 9, 5>>}

\* A mask flattened column-major ('F' order): the stored entries of one column
\* of estimates.A.
ColumnMajor(mask, fov) ==
  LET idx == SetToSortedSeq({mask[k][1] + mask[k][2] * fov[1] : k \in DOMAIN mask})
      at(p) == CHOOSE k \in DOMAIN mask : mask[k][1] + mask[k][2] * fov[1] = p
  IN [i \in DOMAIN idx |-> <<idx[i], mask[at(idx[i])][3]>>]

\* A mask flattened row-major ('C' order): the footprint row it stands for.
RowMajor(mask, fov) ==
  LET idx == SetToSortedSeq({mask[k][1] * fov[2] + mask[k][2] : k \in DOMAIN mask})
      at(p) == CHOOSE k \in DOMAIN mask : mask[k][1] * fov[2] + mask[k][2] = p
  IN [den |-> 1, ents |-> [i \in DOMAIN idx |-> <<idx[i], mask[at(idx[i])][3]>>]]

\* The CSC matrix of shape (H*W, n) of a list of masks.
CSC(masks, fov) ==
  [shape |-> <<fov[1] * fov[2], Len(masks)>>,
   cols |-> [j \in DOMAIN masks |-> ColumnMajor(masks[j], fov)]]

\* The decoded results files of the sessions.
ResultsFiles(masks, discarded, fov) ==
  [s \in DOMAIN masks |->
     [dims |-> fov, A |-> CSC(masks[s], fov), discarded |-> CSC(discarded[s], fov)]]

\* The decoded ops files: yrange and xrange with the given lowest values.
OpsFiles(mins) ==
  [s \in DOMAIN mins |->
     [yrange |-> <<mins[s][1], mins[s][1] + 5>>, xrange |-> <<mins[s][2] + 5, mins[s][2]>>]]

SeqMin(v) == CHOOSE x \in {v[i] : i \in DOMAIN v} : \A i \in DOMAIN v : x <= v[i]

DefaultArgs ==
  [cls |-> "suite2p", masks |-> <<>>, discarded |-> <<>>, fov |-> <<TallH, TallW>>,
   images |-> FALSE, hasOps |-> TRUE, ops |-> <<>>, new_or_old |-> "new",
   centroid_method |-> "centroid", out_height_width |-> <<36, 36>>, workers |-> -1,
   hasLabels |-> FALSE, labels |-> <<>>, include_discarded |-> TRUE, missing |-> {},
   reuse |-> FALSE]

\* The ops files of a 'new' suite2p run, and no discarded component.
Plain(a) ==
  [a EXCEPT !.ops = OpsFiles([s \in DOMAIN a.masks |-> <<0, 0>>]),
            !.discarded = [s \in DOMAIN a.masks |-> <<>>]]

\* The masks of the longer sessions: no pixel, the origin, the far corner.
Core(fov) == { <<>>, << <<0, 0, 1>> >>, << <<fov[1] - 1, fov[2] - 1, 2>> >> }

\* One session under every centroid method: up to two ROIs of every kind, or
\* up to MaxRoi ROIs of the core kinds.
ArgsContent ==
  { Plain([DefaultArgs EXCEPT !.cls = c, !.fov = f, !.masks = <<m>>, !.centroid_method = cm]) :
      <<c, f, m, cm>> \in
        UNION {{<<c, f, m, cm>> : m \in SeqsOf(Catalogue(f), 0, 2) \cup SeqsOf(Core(f), 3, MaxRoi),
                                   c \in {"suite2p", "caiman"}, cm \in Methods} : f \in FOVs} }

\* One session of one or two ROIs, under every requested patch size.
ArgsPatch ==
  { Plain([DefaultArgs EXCEPT !.cls = c, !.fov = f, !.masks = <<m>>, !.out_height_width = o]) :
      <<c, f, m, o>> \in
        UNION {{<<c, f, m, o>> : m \in SeqsOf(Catalogue(f), 1, 2),
                                  c \in {"suite2p", "caiman"}, o \in OutSizes} : f \in FOVs} }

\* Suite2p sessions of one ROI under both conventions, with and without ops
\* files and images.
ArgsShift ==
  { [DefaultArgs EXCEPT !.fov = f, !.masks = [s \in DOMAIN mins |-> <<m[s]>>],
                        !.discarded = [s \in DOMAIN mins |-> <<>>],
                        !.ops = OpsFiles(mins), !.new_or_old = no,
                        !.hasOps = src[1], !.images = src[2]] :
      <<f, m, mins, no, src>> \in
        UNION {UNION {{<<f, m, mins, no, src>> :
                          m \in [1..n -> { << <<0, 0, 1>> >>, << <<1, 1, 1>> >>,
                                          << <<0, 0, 1>>, <<0, 1, 2>>, <<0, 2, 1>> >> }],
                          mins \in [1..n -> YMins \X XMins],
                          no \in {"new", "old"},
                          src \in {<<TRUE, FALSE>>, <<FALSE, TRUE>>, <<FALSE, FALSE>>}} :
                       n \in 1..2} : f \in FOVs} }

\* Up to MaxSessions sessions of zero to two one-pixel ROIs without label
\* files, and up to MaxLabelFiles sessions with one label file each.
CountMasks == [n \in 0..2 |-> [j \in 1..n |-> << <<0, 0, 1>> >>]]

Labelled ==
  UNION {[1..n -> 0..2] \X [1..n -> LabelArrays] : n \in 1..Min(MaxLabelFiles, MaxSessions)}

ArgsCount ==
  { Plain([DefaultArgs EXCEPT !.masks = [s \in DOMAIN ns |-> CountMasks[ns[s]]],
                              !.hasLabels = l # <<>>, !.labels = l, !.workers = w]) :
      <<ns, l, w>> \in (SeqsOf(0..2, 1, MaxSessions) \X {<<>>} \X {-1, 1, 2})
                       \cup {<<x[1], x[2], -1>> : x \in Labelled} }

ArgsCountCaiman ==
  { [DefaultArgs EXCEPT !.cls = "caiman",
                        !.masks = [s \in DOMAIN ns |-> CountMasks[ns[s]]],
                        !.discarded = [s \in DOMAIN ns |-> CountMasks[d]],
                        !.include_discarded = inc,
                        !.hasLabels = l # <<>>, !.labels = l] :
      <<ns, d, inc, l>> \in (SeqsOf(0..2, 1, MaxSessions) \X {0, 1} \X BOOLEAN \X {<<>>})
                            \cup {<<x[1], d, TRUE, x[2]>> : x \in Labelled, d \in {0, 1}} }

\* Calls in which the files of one kind of source path do not exist: one
\* session of one ROI with a label file, under both conventions, with and
\* without ops files and images.
ArgsMissing ==
  { [DefaultArgs EXCEPT !.cls = c, !.masks = <<CountMasks[1]>>, !.discarded = <<CountMasks[0]>>,
                        !.ops = OpsFiles(<<<<1, 1>>>>), !.new_or_old = no,
                        !.hasOps = src[1], !.images = src[2],
                        !.hasLabels = TRUE, !.labels = <<<<5>>>>, !.missing = {k}] :
      <<c, no, src, k>> \in
        ({"suite2p"} \X {"new", "old"} \X {<<TRUE, FALSE>>, <<TRUE, TRUE>>} \X {"stat", "ops", "labels"})
        \cup ({"suite2p"} \X {"new", "old"} \X {<<FALSE, TRUE>>} \X {"stat", "labels"})
        \cup ({"caiman"} \X {"new"} \X {<<FALSE, FALSE>>} \X {"results", "labels"}) }

\* A Data_suite2p of one session of one ROI whose public methods the caller
\* goes on calling once it is constructed.
ArgsReuse ==
  { Plain([DefaultArgs EXCEPT !.fov = f, !.masks = <<<<m>>>>, !.reuse = TRUE]) :
      <<f, m>> \in UNION {{f} \X Core(f) : f \in FOVs} }

\* A Data_custom whose spatialFootprints the caller has set.
ArgsCustom ==
  { Plain([DefaultArgs EXCEPT !.cls = "custom",
                              !.masks = [s \in DOMAIN ns |-> CountMasks[ns[s]]]]) :
      ns \in SeqsOf(0..2, 1, MaxSessions) }

\* The number of footprint rows a results file yields.
NComponents(a, s) ==
  Len(a.masks[s]) + (IF a.include_discarded THEN Len(a.discarded[s]) ELSE 0)

\* Every CaImAn session of the model holds at least one component.
Args ==
  { a \in ArgsContent \cup ArgsPatch \cup ArgsShift \cup ArgsCount \cup ArgsCountCaiman
          \cup ArgsMissing \cup ArgsReuse \cup ArgsCustom :
      a.cls = "caiman" => \A s \in DOMAIN a.masks : NComponents(a, s) >= 1 }

(***************************************************************************)
(* The state: the arguments of the call, the attributes of the object under *)
(* construction, the position of the constructor and the exception raised. *)
(* attrs is the set of attributes assigned so far; an attribute not in it  *)
(* holds its initial value here and does not exist on the object.  ran is  *)
(* the set of steps run so far, the one that raised included.              *)
(***************************************************************************)
VARIABLES args, pc, err, attrs, n_sessions, shifts, statFiles, n_roi, n_roi_total,
          FOV_height, FOV_width, spatialFootprints, sessionID_concat, centroids,
          ROI_images, labelFiles, n_label_total, ran, pool, overall_caiman_labels,
          frame_height_width, calls

vars == <<args, pc, err, attrs, n_sessions, shifts, statFiles, n_roi, n_roi_total,
          FOV_height, FOV_width, spatialFootprints, sessionID_concat, centroids,
          ROI_images, labelFiles, n_label_total, ran, pool, overall_caiman_labels,
          frame_height_width, calls>>

\* The process pool of helpers.simple_multiprocessing: its size, the value of
\* mp.cpu_count(), the tasks not yet finished, the tasks in the order they
\* finished, and the result of each task at the index of its arguments.
\* size = 0: no pool was made.
NoPool == [size |-> 0, cpus |-> 0, pending |-> {}, finished |-> <<>>, slots |-> <<>>]

None == [none |-> TRUE, v |-> <<>>]
Some(x) == [none |-> FALSE, v |-> x]

\* The first failure of a list comprehension, which stops at it.
AllOk(results) == \A i \in DOMAIN results : results[i].ok
FirstErr(results) ==
  results[CHOOSE i \in DOMAIN results : ~results[i].ok /\ \A j \in 1..(i - 1) : results[j].ok].err
Vals(results) == [i \in DOMAIN results |-> results[i].val]

Init ==
  /\ args \in Args
  /\ pc = IF args.cls = "custom" THEN "get_sess_id_concat" ELSE "__init__"
  /\ err = ""
  /\ attrs = IF args.cls = "custom" THEN {"spatialFootprints"} ELSE {}
  /\ n_sessions = 0
  /\ shifts = <<>>
  /\ statFiles = <<>>
  /\ n_roi = <<>>
  /\ n_roi_total = 0
  /\ FOV_height = 0
  /\ FOV_width = 0
  /\ spatialFootprints =
       IF args.cls = "custom"
       THEN [s \in DOMAIN args.masks |->
               [shape |-> <<Len(args.masks[s]), args.fov[1] * args.fov[2]>>,
                rows |-> [j \in DOMAIN args.masks[s] |-> RowMajor(args.masks[s][j], args.fov)]]]
       ELSE <<>>
  /\ sessionID_concat = <<>>
  /\ centroids = <<>>
  /\ ROI_images = <<>>
  /\ labelFiles = None
  /\ n_label_total = 0
  /\ ran = {}
  /\ pool = NoPool
  /\ overall_caiman_labels = <<>>
  /\ frame_height_width = <<0, 0>>
  /\ calls = 0

\* An exception leaves the constructor: no object is returned.
Raise(e) == pc' = "raised" /\ err' = e

(***************************************************************************)
(* Data_suite2p.__init__, one action per step.                             *)
(***************************************************************************)
zero_shifts(n) == [s \in 1..n |-> <<0, 0>>]

\* Shifts that forget the 1-indexing of the 'old' convention.
old_shifts_no_offset(ops) ==
  [s \in DOMAIN ops |-> <<U64(SeqMin(ops[s].yrange)), U64(SeqMin(ops[s].xrange))>>]

\* The shifts of the 'old' convention, as np.uint64.
old_shifts(ops) ==
  [s \in DOMAIN ops |-> <<U64(SeqMin(ops[s].yrange) - 1), U64(SeqMin(ops[s].xrange) - 1)>>]

Data_suite2p_init ==
  /\ args.cls = "suite2p" /\ pc = "__init__"
  /\ ran' = ran \cup {"__init__"}
  /\ UNCHANGED <<pool, overall_caiman_labels, frame_height_width, calls>>
  /\ n_sessions' = Len(args.masks)
  /\ IF args.hasOps /\ args.new_or_old = "old" /\ "ops" \in args.missing
     THEN /\ Raise("FileNotFoundError")
          /\ shifts' = shifts
          /\ attrs' = attrs \cup {"paths_stat", "n_sessions", "statFiles", "centroid_method",
                                  "paths_ops"}
     ELSE /\ shifts' = IF args.hasOps /\ args.new_or_old = "old"
                       THEN old_shifts(args.ops)
                       ELSE zero_shifts(Len(args.masks))
          /\ attrs' = attrs \cup {"paths_stat", "n_sessions", "statFiles", "centroid_method",
                                  "paths_ops", "shifts"}
          /\ pc' = "import_statFiles"
          /\ err' = err
  /\ UNCHANGED <<args, statFiles, n_roi, n_roi_total, FOV_height, FOV_width,
                 spatialFootprints, sessionID_concat, centroids, ROI_images, labelFiles,
                 n_label_total>>

Data_suite2p_import_statFiles ==
  /\ args.cls = "suite2p" /\ pc = "import_statFiles"
  /\ ran' = ran \cup {"import_statFiles"}
  /\ UNCHANGED <<pool, overall_caiman_labels, frame_height_width, calls>>
  /\ IF "stat" \in args.missing
     THEN /\ Raise("FileNotFoundError")
          /\ UNCHANGED <<statFiles, n_roi, n_roi_total, attrs>>
     ELSE /\ statFiles' = args.masks
          /\ n_roi' = [s \in DOMAIN args.masks |-> Len(args.masks[s])]
          /\ n_roi_total' = SumSeq([s \in DOMAIN args.masks |-> Len(args.masks[s])])
          /\ attrs' = attrs \cup {"n_roi", "n_roi_total"}
          /\ pc' = "import_FOV_images"
          /\ err' = err
  /\ UNCHANGED <<args, n_sessions, shifts, FOV_height, FOV_width, spatialFootprints,
                 sessionID_concat, centroids, ROI_images, labelFiles, n_label_total>>

\* The images themselves are not kept: only the shape of the first one is used.
Data_suite2p_import_FOV_images ==
  /\ args.cls = "suite2p" /\ pc = "import_FOV_images"
  /\ ran' = ran \cup {"import_FOV_images"}
  /\ UNCHANGED <<pool, overall_caiman_labels, frame_height_width, calls>>
  /\ IF ~args.images /\ ~args.hasOps
     THEN /\ Raise("ValueError: path_ops")
          /\ UNCHANGED <<attrs, FOV_height, FOV_width>>
     ELSE IF ~args.images /\ "ops" \in args.missing
     THEN /\ Raise("FileNotFoundError")
          /\ UNCHANGED <<attrs, FOV_height, FOV_width>>
     ELSE /\ FOV_height' = args.fov[1]
          /\ FOV_width' = args.fov[2]
          /\ attrs' = attrs \cup {"FOV_images", "FOV_height", "FOV_width"}
          /\ pc' = "import_ROI_spatialFootprints"
          /\ err' = err
  /\ UNCHANGED <<args, n_sessions, shifts, statFiles, n_roi, n_roi_total, spatialFootprints,
                 sessionID_concat, centroids, ROI_images, labelFiles, n_label_total>>

\* Every session's task gets the shift of the first session.
task_args_first_shift(ii, fhw) == <<n_roi[ii], fhw, statFiles[ii], shifts[1]>>

\* The arguments of the task of session ii: the ii-th of each list handed to
\* the pool, which are the arguments of the sequential call as well.
task_args(ii, fhw) == <<n_roi[ii], fhw, statFiles[ii], shifts[ii]>>

run_task(ii, fhw) ==
  _helper_populate_sf(task_args(ii, fhw)[1], task_args(ii, fhw)[2], task_args(ii, fhw)[3],
                      task_args(ii, fhw)[4])

\* The list map() returns: the results at the index of their arguments.
gather(p) == [ii \in DOMAIN p.slots |-> p.slots[ii]]

\* The end of import_ROI_spatialFootprints, once the list of results is known.
\* frame_height_width keeps the frame the footprints of the object were built
\* for.
set_spatialFootprints(results, fhw, next) ==
  LET sid == sessionID_concat_of(Vals(results))
  IN IF ~AllOk(results)
     THEN /\ Raise(FirstErr(results))
          /\ UNCHANGED <<attrs, spatialFootprints, sessionID_concat, frame_height_width>>
     ELSE /\ spatialFootprints' = Vals(results)
          /\ frame_height_width' = fhw
          /\ IF sid.ok
             THEN /\ sessionID_concat' = sid.val
                  /\ attrs' = attrs \cup {"spatialFootprints", "sessionID_concat"}
                  /\ pc' = next
                  /\ err' = err
             ELSE /\ Raise(sid.err)
                  /\ attrs' = attrs \cup {"spatialFootprints"}
                  /\ UNCHANGED sessionID_concat

\* import_ROI_spatialFootprints(workers=workers), frame_height_width None.
\* workers = -1 stands for mp.cpu_count(); one worker builds the sessions in
\* the calling process, any other number hands them to a pool of
\* mp.cpu_count() processes.
Data_suite2p_import_ROI_spatialFootprints ==
  /\ args.cls = "suite2p" /\ pc = "import_ROI_spatialFootprints"
  /\ ran' = ran \cup {"import_ROI_spatialFootprints"}
  /\ \E cpu_count \in 1..MaxCpus :
       LET workers == IF args.workers = -1 THEN cpu_count ELSE args.workers
       IN IF workers = 1
          THEN /\ set_spatialFootprints([ii \in 1..n_sessions |->
                                           run_task(ii, <<FOV_height, FOV_width>>)],
                                        <<FOV_height, FOV_width>>, "get_centroids")
               /\ pool' = [NoPool EXCEPT !.cpus = cpu_count]
          ELSE /\ pool' = [size |-> cpu_count, cpus |-> cpu_count, pending |-> 1..n_sessions,
                           finished |-> <<>>, slots |-> [ii \in 1..n_sessions |-> <<>>]]
               /\ pc' = "simple_multiprocessing"
               /\ UNCHANGED <<err, attrs, spatialFootprints, sessionID_concat,
                              frame_height_width>>
  /\ UNCHANGED <<args, n_sessions, shifts, statFiles, n_roi, n_roi_total, FOV_height,
                 FOV_width, centroids, ROI_images, labelFiles, n_label_total,
                 overall_caiman_labels, calls>>

\* One task of the pool finishes, in any order the pool allows: a pool of one
\* process takes the tasks in the order of the list.
simple_multiprocessing_task ==
  /\ pc = "simple_multiprocessing"
  /\ \E ii \in pool.pending :
       /\ pool.size = 1 => \A j \in pool.pending : ii <= j
       /\ pool' = [pool EXCEPT !.pending = @ \ {ii}, !.finished = Append(@, ii),
                               !.slots[ii] = run_task(ii, <<FOV_height, FOV_width>>)]
  /\ UNCHANGED <<args, pc, err, attrs, n_sessions, shifts, statFiles, n_roi, n_roi_total,
                 FOV_height, FOV_width, spatialFootprints, sessionID_concat, centroids,
                 ROI_images, labelFiles, n_label_total, ran, overall_caiman_labels,
                 frame_height_width, calls>>

\* The pool has finished every task: simple_multiprocessing returns.
simple_multiprocessing_join ==
  /\ pc = "simple_multiprocessing" /\ pool.pending = {}
  /\ set_spatialFootprints(gather(pool), <<FOV_height, FOV_width>>, "get_centroids")
  /\ UNCHANGED <<args, n_sessions, shifts, statFiles, n_roi, n_roi_total, FOV_height,
                 FOV_width, centroids, ROI_images, labelFiles, n_label_total, ran, pool,
                 overall_caiman_labels, calls>>

\* self.centroids = [self.get_centroids(sf, ...).T for sf in self.spatialFootprints]
Data_suite2p_get_centroids ==
  /\ args.cls = "suite2p" /\ pc = "get_centroids"
  /\ ran' = ran \cup {"get_centroids"}
  /\ UNCHANGED <<pool, overall_caiman_labels, frame_height_width, calls>>
  /\ \E nan_as \in NaNCastOutcomes :
       LET results == [s \in DOMAIN spatialFootprints |->
                         suite2p_get_centroids(spatialFootprints[s], FOV_height, FOV_width,
                                               args.centroid_method, nan_as)]
       IN IF AllOk(results)
          THEN /\ centroids' = Vals(results)
               /\ attrs' = attrs \cup {"centroids"}
               /\ pc' = "import_ROI_centeredImages"
               /\ err' = err
          ELSE /\ Raise(FirstErr(results))
               /\ UNCHANGED <<attrs, centroids>>
  /\ UNCHANGED <<args, n_sessions, shifts, statFiles, n_roi, n_roi_total, FOV_height,
                 FOV_width, spatialFootprints, sessionID_concat, ROI_images, labelFiles,
                 n_label_total>>

\* import_ROI_centeredImages(out_height_width): shared by the two classes.
import_ROI_centeredImages(next) ==
  LET results == [s \in DOMAIN spatialFootprints |->
                    sf_to_centeredROIs(spatialFootprints[s], centroids[s],
                                       args.out_height_width, FOV_height, FOV_width)]
  IN IF AllOk(results)
     THEN /\ ROI_images' = Vals(results)
          /\ attrs' = attrs \cup {"ROI_images"}
          /\ pc' = next
          /\ err' = err
     ELSE /\ Raise(FirstErr(results))
          /\ UNCHANGED <<attrs, ROI_images>>

Data_suite2p_import_ROI_centeredImages ==
  /\ args.cls = "suite2p" /\ pc = "import_ROI_centeredImages"
  /\ ran' = ran \cup {"import_ROI_centeredImages"}
  /\ UNCHANGED <<pool, overall_caiman_labels, frame_height_width, calls>>
  /\ import_ROI_centeredImages("import_ROI_labels")
  /\ UNCHANGED <<args, n_sessions, shifts, statFiles, n_roi, n_roi_total, FOV_height,
                 FOV_width, spatialFootprints, sessionID_concat, centroids, labelFiles,
                 n_label_total>>

\* type(self.statFiles) is np.ndarray: import_statFiles makes statFiles a list
\* (of the arrays np.load returns), in every run.
statFiles_is_ndarray == FALSE

\* import_ROI_labels, shared by the two classes.  labelFiles is assigned before
\* statFiles is looked at.
import_ROI_labels ==
  IF "labels" \in args.missing
  THEN /\ Raise("FileNotFoundError")
       /\ attrs' = attrs \cup {"paths_labels"}
       /\ UNCHANGED <<n_label_total, labelFiles>>
  ELSE /\ n_label_total' = SumSeq([i \in DOMAIN args.labels |-> Len(args.labels[i])])
       /\ labelFiles' = Some(squeeze_integers(Concat(args.labels)))
       /\ attrs' = attrs \cup {"paths_labels", "n_label", "n_label_total", "labelFiles"}
       /\ IF "statFiles" \notin attrs
          THEN Raise("AttributeError")
          ELSE IF statFiles_is_ndarray /\ Len(statFiles) # Len(Concat(args.labels))
          THEN Raise("AssertionError: num images")
          ELSE pc' = "done" /\ err' = err

\* The end of __init__ without label files.
no_labels ==
  /\ labelFiles' = None
  /\ attrs' = attrs \cup {"paths_labels", "labelFiles"}
  /\ pc' = "done"
  /\ UNCHANGED <<err, n_label_total>>

Data_suite2p_import_ROI_labels ==
  /\ args.cls = "suite2p" /\ pc = "import_ROI_labels"
  /\ ran' = ran \cup {"import_ROI_labels"}
  /\ UNCHANGED <<pool, overall_caiman_labels, frame_height_width, calls>>
  /\ IF args.hasLabels THEN import_ROI_labels ELSE no_labels
  /\ UNCHANGED <<args, n_sessions, shifts, statFiles, n_roi, n_roi_total, FOV_height,
                 FOV_width, spatialFootprints, sessionID_concat, centroids, ROI_images>>

(***************************************************************************)
(* Data_caiman.__init__, one action per step.                              *)
(***************************************************************************)
Data_caiman_init ==
  /\ args.cls = "caiman" /\ pc = "__init__"
  /\ ran' = ran \cup {"__init__"}
  /\ UNCHANGED <<pool, overall_caiman_labels, frame_height_width, calls>>
  /\ n_sessions' = Len(args.masks)
  /\ attrs' = attrs \cup {"paths_resultsFiles", "n_sessions", "centroid_method",
                          "_include_discarded"}
  /\ IF "results" \in args.missing
     THEN Raise("FileNotFoundError")
     ELSE pc' = "import_caimanResults" /\ err' = err
  /\ UNCHANGED <<args, shifts, statFiles, n_roi, n_roi_total, FOV_height, FOV_width,
                 spatialFootprints, sessionID_concat, centroids, ROI_images, labelFiles,
                 n_label_total>>

\* import_caimanResults: the footprints, the counts, then import_FOV_images,
\* which takes FOV_height and FOV_width from the first image.
Data_caiman_import_caimanResults ==
  /\ args.cls = "caiman" /\ pc = "import_caimanResults"
  /\ ran' = ran \cup {"import_caimanResults"}
  /\ UNCHANGED <<pool, frame_height_width, calls>>
  /\ LET data == ResultsFiles(args.masks, args.discarded, args.fov)
         results == [s \in DOMAIN data |->
                       _import_spatialFootprints(data[s], args.include_discarded)]
     IN IF AllOk(results)
        THEN /\ spatialFootprints' = Vals(results)
             /\ overall_caiman_labels' =
                  [s \in DOMAIN data |->
                     _import_overall_caiman_labels(data[s], args.include_discarded)]
             /\ n_roi' = [s \in DOMAIN results |-> results[s].val.shape[1]]
             /\ n_roi_total' = SumSeq([s \in DOMAIN results |-> results[s].val.shape[1]])
             /\ FOV_height' = data[1].dims[1]
             /\ FOV_width' = data[1].dims[2]
             /\ attrs' = attrs \cup {"spatialFootprints", "overall_caiman_labels",
                                     "cnn_caiman_preds", "n_roi", "n_roi_total",
                                     "FOV_images", "FOV_height", "FOV_width"}
             /\ pc' = "get_centroids"
             /\ err' = err
        ELSE /\ Raise(FirstErr(results))
             /\ UNCHANGED <<attrs, spatialFootprints, n_roi, n_roi_total, FOV_height, FOV_width,
                            overall_caiman_labels>>
  /\ UNCHANGED <<args, n_sessions, shifts, statFiles, sessionID_concat, centroids,
                 ROI_images, labelFiles, n_label_total>>

Data_caiman_get_centroids ==
  /\ args.cls = "caiman" /\ pc = "get_centroids"
  /\ ran' = ran \cup {"get_centroids"}
  /\ UNCHANGED <<pool, overall_caiman_labels, frame_height_width, calls>>
  /\ \E nan_as \in NaNCastOutcomes :
       LET results == [s \in DOMAIN spatialFootprints |->
                         caiman_get_centroids(spatialFootprints[s], FOV_height, FOV_width,
                                              args.centroid_method, nan_as)]
       IN IF AllOk(results)
          THEN /\ centroids' = Vals(results)
               /\ attrs' = attrs \cup {"centroids"}
               /\ pc' = "sessionID_concat"
               /\ err' = err
          ELSE /\ Raise(FirstErr(results))
               /\ UNCHANGED <<attrs, centroids>>
  /\ UNCHANGED <<args, n_sessions, shifts, statFiles, n_roi, n_roi_total, FOV_height,
                 FOV_width, spatialFootprints, sessionID_concat, ROI_images, labelFiles,
                 n_label_total>>

\* self.sessionID_concat = np.vstack(...): shared by Data_caiman and Data_custom.
set_sessionID_concat(next) ==
  LET sid == sessionID_concat_of(spatialFootprints)
  IN IF sid.ok
     THEN /\ sessionID_concat' = sid.val
          /\ attrs' = attrs \cup {"sessionID_concat"}
          /\ pc' = next
          /\ err' = err
     ELSE /\ Raise(sid.err)
          /\ UNCHANGED <<attrs, sessionID_concat>>

Data_caiman_sessionID_concat ==
  /\ args.cls = "caiman" /\ pc = "sessionID_concat"
  /\ ran' = ran \cup {"sessionID_concat"}
  /\ UNCHANGED <<pool, overall_caiman_labels, frame_height_width, calls>>
  /\ set_sessionID_concat("import_ROI_centeredImages")
  /\ UNCHANGED <<args, n_sessions, shifts, statFiles, n_roi, n_roi_total, FOV_height,
                 FOV_width, spatialFootprints, centroids, ROI_images, labelFiles,
                 n_label_total>>

Data_caiman_import_ROI_centeredImages ==
  /\ args.cls = "caiman" /\ pc = "import_ROI_centeredImages"
  /\ ran' = ran \cup {"import_ROI_centeredImages"}
  /\ UNCHANGED <<pool, overall_caiman_labels, frame_height_width, calls>>
  /\ import_ROI_centeredImages("import_ROI_labels")
  /\ UNCHANGED <<args, n_sessions, shifts, statFiles, n_roi, n_roi_total, FOV_height,
                 FOV_width, spatialFootprints, sessionID_concat, centroids, labelFiles,
                 n_label_total>>

\* Data_caiman never assigns statFiles.
Data_caiman_import_ROI_labels ==
  /\ args.cls = "caiman" /\ pc = "import_ROI_labels"
  /\ ran' = ran \cup {"import_ROI_labels"}
  /\ UNCHANGED <<pool, overall_caiman_labels, frame_height_width, calls>>
  /\ IF args.hasLabels THEN import_ROI_labels ELSE no_labels
  /\ UNCHANGED <<args, n_sessions, shifts, statFiles, n_roi, n_roi_total, FOV_height,
                 FOV_width, spatialFootprints, sessionID_concat, centroids, ROI_images>>

(***************************************************************************)
(* Data_custom.                                                            *)
(***************************************************************************)
Data_custom_get_sess_id_concat ==
  /\ args.cls = "custom" /\ pc = "get_sess_id_concat"
  /\ ran' = ran \cup {"get_sess_id_concat"}
  /\ UNCHANGED <<pool, overall_caiman_labels, frame_height_width, calls>>
  /\ set_sessionID_concat("done")
  /\ UNCHANGED <<args, n_sessions, shifts, statFiles, n_roi, n_roi_total, FOV_height,
                 FOV_width, spatialFootprints, centroids, ROI_images, labelFiles,
                 n_label_total>>

(***************************************************************************)
(* The public methods of a constructed Data_suite2p, called again by the   *)
(* owner of the object.  An exception of such a call ends the run.         *)
(***************************************************************************)
Callable == args.cls = "suite2p" /\ args.reuse /\ pc = "done" /\ calls < MaxCalls

call_import_statFiles ==
  /\ Callable
  /\ calls' = calls + 1
  /\ statFiles' = args.masks
  /\ n_roi' = [s \in DOMAIN args.masks |-> Len(args.masks[s])]
  /\ n_roi_total' = SumSeq([s \in DOMAIN args.masks |-> Len(args.masks[s])])
  /\ UNCHANGED <<args, pc, err, attrs, n_sessions, shifts, FOV_height, FOV_width,
                 spatialFootprints, sessionID_concat, centroids, ROI_images, labelFiles,
                 n_label_total, ran, pool, overall_caiman_labels, frame_height_width>>

\* import_FOV_images(images=...): None, or images of one of the frame sizes.
call_import_FOV_images ==
  /\ Callable
  /\ calls' = calls + 1
  /\ \E images \in {<<>>} \cup FOVs :
       IF images = <<>> /\ ~args.hasOps
       THEN /\ Raise("ValueError: path_ops")
            /\ UNCHANGED <<FOV_height, FOV_width>>
       ELSE /\ FOV_height' = IF images = <<>> THEN args.fov[1] ELSE images[1]
            /\ FOV_width' = IF images = <<>> THEN args.fov[2] ELSE images[2]
            /\ UNCHANGED <<pc, err>>
  /\ UNCHANGED <<args, attrs, n_sessions, shifts, statFiles, n_roi, n_roi_total,
                 spatialFootprints, sessionID_concat, centroids, ROI_images, labelFiles,
                 n_label_total, ran, pool, overall_caiman_labels, frame_height_width>>

\* import_ROI_spatialFootprints(frame_height_width=...): None, or one of the
\* frame sizes; workers has its default, 1.
call_import_ROI_spatialFootprints ==
  /\ Callable
  /\ calls' = calls + 1
  /\ \E given \in {<<>>} \cup FOVs :
       LET fhw == IF given = <<>> THEN <<FOV_height, FOV_width>> ELSE given
       IN set_spatialFootprints([ii \in 1..n_sessions |-> run_task(ii, fhw)], fhw, "done")
  /\ UNCHANGED <<args, n_sessions, shifts, statFiles, n_roi, n_roi_total, FOV_height,
                 FOV_width, centroids, ROI_images, labelFiles, n_label_total, ran, pool,
                 overall_caiman_labels>>

call_import_ROI_centeredImages ==
  /\ Callable
  /\ calls' = calls + 1
  /\ import_ROI_centeredImages("done")
  /\ UNCHANGED <<args, n_sessions, shifts, statFiles, n_roi, n_roi_total, FOV_height,
                 FOV_width, spatialFootprints, sessionID_concat, centroids, labelFiles,
                 n_label_total, ran, pool, overall_caiman_labels, frame_height_width>>

Next ==
  \/ Data_suite2p_init
  \/ Data_suite2p_import_statFiles
  \/ Data_suite2p_import_FOV_images
  \/ Data_suite2p_import_ROI_spatialFootprints
  \/ simple_multiprocessing_task
  \/ simple_multiprocessing_join
  \/ Data_suite2p_get_centroids
  \/ Data_suite2p_import_ROI_centeredImages
  \/ Data_suite2p_import_ROI_labels
  \/ call_import_statFiles
  \/ call_import_FOV_images
  \/ call_import_ROI_spatialFootprints
  \/ call_import_ROI_centeredImages
  \/ Data_caiman_init
  \/ Data_caiman_import_caimanResults
  \/ Data_caiman_get_centroids
  \/ Data_caiman_sessionID_concat
  \/ Data_caiman_import_ROI_centeredImages
  \/ Data_caiman_import_ROI_labels
  \/ Data_custom_get_sess_id_concat

Spec == Init /\ [][Next]_vars

(***************************************************************************)
(* Vocabulary of the properties.                                           *)
(***************************************************************************)
\* The value a footprint row stores at a flat index: <<num, den>>, or <<>>
\* when it stores none.
StoredAt(row, flat) ==
  IF \E k \in DOMAIN row.ents : row.ents[k][1] = flat
  THEN <<row.ents[CHOOSE k \in DOMAIN row.ents : row.ents[k][1] = flat][2], row.den>>
  ELSE <<>>

\* The value a column of estimates.A stores at an index, or <<>>.
StoredInColumn(col, idx) ==
  IF \E k \in DOMAIN col : col[k][1] = idx
  THEN <<col[CHOOSE k \in DOMAIN col : col[k][1] = idx][2]>>
  ELSE <<>>

\* The number of footprint rows of each session.
RowCounts == [s \in DOMAIN spatialFootprints |-> spatialFootprints[s].shape[1]]

\* The session that produced row r of the concatenation.
SessionOfRow(r) ==
  CHOOSE s \in DOMAIN RowCounts :
    /\ SumSeq(SubSeq(RowCounts, 1, s - 1)) < r
    /\ r <= SumSeq(SubSeq(RowCounts, 1, s))

\* The components of a CaImAn session in the order of the footprint rows.
Components(s) ==
  args.masks[s] \o (IF args.include_discarded THEN args.discarded[s] ELSE <<>>)

\* A footprint row that is a symmetric, one-pixel-wide line of positive
\* weights along the given axis (a single pixel is one).
SymmetricLine(row, width, along) ==
  LET n == Len(row.ents)
      across == IF along = 1 THEN 2 ELSE 1
  IN /\ n >= 1
     /\ row.den > 0
     /\ \A k \in 1..n :
          /\ row.ents[k][2] > 0
          /\ row.ents[k][2] = row.ents[n + 1 - k][2]
          /\ AxisIndex(row.ents[k][1], width, across)
               = AxisIndex(row.ents[1][1], width, across)
          /\ AxisIndex(row.ents[k][1], width, along)
               = AxisIndex(row.ents[1][1], width, along) + (k - 1)

Symmetric(row, width) ==
  SymmetricLine(row, width, 1) \/ SymmetricLine(row, width, 2)

(***************************************************************************)
(* C1.  Whenever sessionID_concat is built, it has shape (sum of n_roi,    *)
(* n_sessions), row r is true exactly in the column of the session that    *)
(* produced ROI r, column i holds n_roi[i] trues, and in Data_suite2p and  *)
(* Data_caiman sum(n_roi) = n_roi_total = the number of rows.              *)
(***************************************************************************)
C1_MembershipMatrix ==
  "sessionID_concat" \in attrs =>
    LET total == SumSeq(RowCounts)
        M == sessionID_concat
    IN /\ M.shape = <<total, Len(spatialFootprints)>>
       /\ Len(M.rows) = total
       /\ \A r \in 1..total : \A c \in DOMAIN RowCounts :
            M.rows[r][c] = (c = SessionOfRow(r))
       /\ \A c \in DOMAIN RowCounts :
            Cardinality({r \in 1..total : M.rows[r][c]}) = RowCounts[c]
       /\ args.cls # "custom" => SumSeq(n_roi) = n_roi_total /\ n_roi_total = total

(***************************************************************************)
(* C2.  Whenever import_ROI_centeredImages has produced ROI_images, the    *)
(* array of every session has shape (n_roi, out_height, out_width) for the *)
(* requested out_height_width.                                             *)
(***************************************************************************)
C2_RequestedPatchShape ==
  "ROI_images" \in attrs =>
    \A s \in DOMAIN ROI_images :
      ROI_images[s].shape =
        <<RowCounts[s], args.out_height_width[1], args.out_height_width[2]>>

(***************************************************************************)
(* C3.  CaImAn round trip: for every component k of every session and      *)
(* every pixel <<r, c, v>> of its mask, estimates.A holds v in column k at *)
(* the column-major index r + c*H, the footprint holds v in row k at the   *)
(* row-major index r*W + c, and the row stores nothing else: the footprint *)
(* row is the row-major mask.                                              *)
(***************************************************************************)
C3_CaimanRoundTrip ==
  (args.cls = "caiman" /\ "spatialFootprints" \in attrs) =>
    \A s \in DOMAIN spatialFootprints :
      LET H == args.fov[1]
          W == args.fov[2]
          cols == CSC(Components(s), args.fov).cols
          rows == spatialFootprints[s].rows
      IN /\ Len(rows) = Len(Components(s))
         /\ \A k \in DOMAIN rows :
              /\ Len(rows[k].ents) = Len(Components(s)[k])
              /\ \A i \in DOMAIN Components(s)[k] :
                   LET px == Components(s)[k][i]
                   IN /\ StoredInColumn(cols[k], px[1] + px[2] * H) = <<px[3]>>
                      /\ StoredAt(rows[k], px[1] * W + px[2]) = <<px[3], 1>>
              /\ rows[k] = RowMajor(Components(s)[k], args.fov)

\* A CaImAn footprint is built from a component with two pixels in different
\* rows and columns of a frame that is not square.
C3_Witness ==
  /\ args.cls = "caiman" /\ "spatialFootprints" \in attrs
  /\ args.fov[1] # args.fov[2]
  /\ \E s \in DOMAIN spatialFootprints : \E k \in DOMAIN Components(s) :
       \E i, j \in DOMAIN Components(s)[k] :
         /\ Components(s)[k][i][1] # Components(s)[k][j][1]
         /\ Components(s)[k][i][2] # Components(s)[k][j][2]
         /\ Components(s)[k][i][3] > 0 /\ Components(s)[k][j][3] > 0

(***************************************************************************)
(* C4.  Suite2p adapter: row j of a session's footprint matrix, of shape   *)
(* (n_roi, H*W), holds lam_k / sum(lam) at (ypix_k + shift_row) * W +      *)
(* (xpix_k + shift_col) for each pixel k of ROI j and nothing elsewhere,   *)
(* and every row sums to 1.                                                *)
(***************************************************************************)
C4_Suite2pRows ==
  (args.cls = "suite2p" /\ "spatialFootprints" \in attrs) =>
    \A s \in DOMAIN spatialFootprints :
      LET sf == spatialFootprints[s]
      IN /\ sf.shape = <<n_roi[s], FOV_height * FOV_width>>
         /\ Len(sf.rows) = Len(statFiles[s])
         /\ \A j \in DOMAIN sf.rows :
              LET roi == statFiles[s][j]
              IN /\ Len(sf.rows[j].ents) = Len(roi)
                 /\ \A k \in DOMAIN roi :
                      StoredAt(sf.rows[j],
                               U64(roi[k][1] + shifts[s][1]) * FOV_width
                                 + U64(roi[k][2] + shifts[s][2]))
                        = <<roi[k][3], SumLam(roi)>>
                 /\ sf.rows[j].den > 0
                 /\ RowMass(sf.rows[j]) = sf.rows[j].den

(***************************************************************************)
(* C5.  'old' convention with ops files: in every footprint built, a pixel *)
(* at relative (y, x) of a session is stored at absolute                   *)
(* (y + min(yrange) - 1, x + min(xrange) - 1) of the frame.                *)
(***************************************************************************)
C5_LegacyShift ==
  (args.cls = "suite2p" /\ args.new_or_old = "old" /\ args.hasOps
     /\ "spatialFootprints" \in attrs) =>
    \A s \in DOMAIN spatialFootprints : \A j \in DOMAIN statFiles[s] :
      \A k \in DOMAIN statFiles[s][j] :
        LET y == statFiles[s][j][k][1] + SeqMin(args.ops[s].yrange) - 1
            x == statFiles[s][j][k][2] + SeqMin(args.ops[s].xrange) - 1
        IN /\ 0 <= y /\ y < FOV_height
           /\ 0 <= x /\ x < FOV_width
           /\ StoredAt(spatialFootprints[s].rows[j], y * FOV_width + x) # <<>>

\* The example of the spec: ranges [5,10] and [3,8] send relative (0,0) to
\* absolute (4,2).
C5_Witness ==
  /\ args.cls = "suite2p" /\ args.new_or_old = "old" /\ args.hasOps
  /\ "spatialFootprints" \in attrs
  /\ SeqMin(args.ops[1].yrange) = 5 /\ SeqMin(args.ops[1].xrange) = 3
  /\ statFiles[1][1] = << <<0, 0, 1>> >>
  /\ StoredAt(spatialFootprints[1].rows[1], 4 * FOV_width + 2) = <<1, 1>>

(***************************************************************************)
(* C6.  Every centroid computed lies in the frame: 0 <= row < FOV_height   *)
(* and 0 <= col < FOV_width.                                               *)
(***************************************************************************)
C6_CentroidInFrame ==
  "centroids" \in attrs =>
    \A s \in DOMAIN centroids : \A j \in DOMAIN centroids[s] :
      /\ 0 <= centroids[s][j][1] /\ centroids[s][j][1] < FOV_height
      /\ 0 <= centroids[s][j][2] /\ centroids[s][j][2] < FOV_width

(***************************************************************************)
(* C7.  On every footprint built, for every ROI whose mask is a symmetric  *)
(* one-pixel-wide line, get_centroids of the object's class succeeds under *)
(* both methods and returns the same (row, col).                           *)
(***************************************************************************)
C7_MethodsAgree ==
  (args.cls \in {"suite2p", "caiman"} /\ "spatialFootprints" \in attrs
     /\ "FOV_height" \in attrs) =>
    \A s \in DOMAIN spatialFootprints : \A nan_as \in NaNCastOutcomes :
      LET sf == spatialFootprints[s]
          get(m) == IF args.cls = "caiman"
                    THEN caiman_get_centroids(sf, FOV_height, FOV_width, m, nan_as)
                    ELSE suite2p_get_centroids(sf, FOV_height, FOV_width, m, nan_as)
      IN (\E j \in DOMAIN sf.rows : Symmetric(sf.rows[j], FOV_width)) =>
           /\ get("centroid").ok /\ get("median").ok
           /\ \A j \in DOMAIN sf.rows :
                Symmetric(sf.rows[j], FOV_width) =>
                  get("centroid").val[j] = get("median").val[j]

(***************************************************************************)
(* C8.  With a centroid method other than "centroid" and "median" the      *)
(* constructor never completes, leaves no centroids and no ROI_images, and *)
(* once get_centroids has run it has raised the ValueError naming the      *)
(* valid methods.                                                          *)
(***************************************************************************)
C8_UnknownMethodRejected ==
  (args.cls \in {"suite2p", "caiman"}
     /\ args.centroid_method \notin {"centroid", "median"}) =>
    /\ pc # "done"
    /\ "centroids" \notin attrs
    /\ "ROI_images" \notin attrs
    /\ "get_centroids" \in ran =>
         /\ pc = "raised"
         /\ err = "ValueError: Only valid methods"
         /\ "import_ROI_centeredImages" \notin ran

\* A Data_caiman with a ROI of positive weight is refused for its method.
C8_Witness ==
  /\ args.cls = "caiman"
  /\ args.centroid_method = "mean"
  /\ "get_centroids" \in ran
  /\ pc = "raised" /\ err = "ValueError: Only valid methods"
  /\ \E s \in DOMAIN spatialFootprints : \E j \in DOMAIN spatialFootprints[s].rows :
       RowMass(spatialFootprints[s].rows[j]) > 0

(***************************************************************************)
(* C9.  Whenever import_ROI_centeredImages has run on footprints in which  *)
(* some ROI stores no entry, it has raised the AssertionError and no       *)
(* ROI_images exist.                                                       *)
(***************************************************************************)
C9_EmptyRoiAsserted ==
  (/\ "import_ROI_centeredImages" \in ran
   /\ \E s \in DOMAIN spatialFootprints : \E j \in DOMAIN spatialFootprints[s].rows :
        Len(spatialFootprints[s].rows[j].ents) = 0) =>
    /\ pc = "raised" /\ err = "AssertionError"
    /\ "ROI_images" \notin attrs

(***************************************************************************)
(* C10.  Whenever import_ROI_labels has run on label files whose total     *)
(* number of labels differs from the total number of ROIs, it has raised   *)
(* the AssertionError of the consistency check.                            *)
(***************************************************************************)
C10_LabelCountChecked ==
  (/\ args.hasLabels
   /\ "import_ROI_labels" \in ran
   /\ Len(Concat(args.labels)) # n_roi_total) =>
    /\ pc = "raised" /\ err = "AssertionError: num images"

(***************************************************************************)
(* C11.  Whenever the files of a source path given to the constructor do   *)
(* not exist, the constructor does not complete and no processing step has *)
(* had an effect: no stat file is loaded, no FOV size is set, no footprint,*)
(* centroid or centered image exists.                                      *)
(***************************************************************************)
C11_MissingPathFailsFirst ==
  args.missing # {} =>
    /\ pc # "done"
    /\ attrs \cap {"n_roi", "FOV_height", "spatialFootprints", "centroids", "ROI_images"} = {}

C17_PoolSize ==
  (args.cls = "suite2p" /\ "import_ROI_spatialFootprints" \in ran) =>
    /\ args.workers = 1 => pool.size = 0
    /\ args.workers = -1 => (IF pool.size = 0 THEN 1 ELSE pool.size) = pool.cpus
    /\ args.workers > 1 => pool.size = args.workers

(***************************************************************************)
(* C13.  Whenever Data_caiman has imported the results files, for every    *)
(* session overall_caiman_labels has n_roi entries: a 1 for each included  *)
(* component, then a 0 for each discarded component when they are          *)
(* included, in the order of the footprint rows.                           *)
(***************************************************************************)
C13_LabelsParallelToRows ==
  (args.cls = "caiman" /\ "overall_caiman_labels" \in attrs) =>
    \A s \in DOMAIN overall_caiman_labels :
      /\ Len(overall_caiman_labels[s]) = n_roi[s]
      /\ Len(overall_caiman_labels[s]) = spatialFootprints[s].shape[1]
      /\ \A k \in DOMAIN overall_caiman_labels[s] :
           overall_caiman_labels[s][k] = IF k <= Len(args.masks[s]) THEN 1 ELSE 0

\* The pixels <<row, col, weight>> of ROI j of session s in the frame, as the
\* source files give them: the stat record moved by the shift of the session,
\* or the component of the results file.
SourcePixels(s, j) ==
  IF args.cls = "suite2p"
  THEN [k \in DOMAIN args.masks[s][j] |->
          <<U64(args.masks[s][j][k][1] + shifts[s][1]),
            U64(args.masks[s][j][k][2] + shifts[s][2]),
            args.masks[s][j][k][3]>>]
  ELSE Components(s)[j]

\* c is an integer nearest to n / d (d > 0).
Nearest(c, n, d) == 2 * (c * d - n) <= d /\ 2 * (n - c * d) <= d

(***************************************************************************)
(* C14.  With the 'centroid' method, for every ROI of positive total       *)
(* weight the centroid row is an integer nearest to                        *)
(* sum(row * weight) / sum(weight) over its pixels, the centroid column    *)
(* likewise, and a ROI of one pixel has that pixel as its centroid.        *)
(***************************************************************************)
C14_WeightedMean ==
  (args.cls \in {"suite2p", "caiman"} /\ args.centroid_method = "centroid"
     /\ "centroids" \in attrs) =>
    \A s \in DOMAIN centroids :
      /\ Len(centroids[s]) = spatialFootprints[s].shape[1]
      /\ \A j \in DOMAIN centroids[s] :
           LET px == SourcePixels(s, j)
               mass == SumSeq([k \in DOMAIN px |-> px[k][3]])
               moment(a) == SumSeq([k \in DOMAIN px |-> px[k][a] * px[k][3]])
           IN mass > 0 =>
                /\ Nearest(centroids[s][j][1], moment(1), mass)
                /\ Nearest(centroids[s][j][2], moment(2), mass)
                /\ Len(px) = 1 => centroids[s][j] = <<px[1][1], px[1][2]>>

\* The centroid (4, 3) of the line of weights 1, 2, 1 that the shift of the
\* 'old' convention moves to row 4, columns 2 to 4.
C14_Witness ==
  /\ args.cls = "suite2p" /\ args.centroid_method = "centroid" /\ "centroids" \in attrs
  /\ shifts[1] = <<4, 2>>
  /\ args.masks[1][1] = << <<0, 0, 1>>, <<0, 1, 2>>, <<0, 2, 1>> >>
  /\ centroids[1][1] = <<4, 3>>

\* c is an integer nearest to the median of the non-empty set S of integers.
NearestMedian(c, S) ==
  LET q == SetToSortedSeq(S)
      n == Len(q)
  IN IF n % 2 = 1 THEN c = q[(n + 1) \div 2]
     ELSE Nearest(c, q[n \div 2] + q[n \div 2 + 1], 2)

(***************************************************************************)
(* C15.  With the 'median' method, once get_centroids has run the          *)
(* centroids exist, and for every ROI with a non-zero pixel the centroid   *)
(* row is the rounded median of the set of rows holding a non-zero pixel   *)
(* and the centroid column the rounded median of the set of such columns,  *)
(* index 0 counting like any other.                                        *)
(***************************************************************************)
C15_MedianOfIndexSets ==
  (args.cls \in {"suite2p", "caiman"} /\ args.centroid_method = "median"
     /\ "get_centroids" \in ran) =>
    /\ "centroids" \in attrs
    /\ \A s \in DOMAIN centroids : \A j \in DOMAIN centroids[s] :
         LET px == SourcePixels(s, j)
             idx(a) == {px[k][a] : k \in {i \in DOMAIN px : px[i][3] # 0}}
         IN idx(1) # {} =>
              /\ NearestMedian(centroids[s][j][1], idx(1))
              /\ NearestMedian(centroids[s][j][2], idx(2))

\* The image the centering of ROI j of a footprint matrix on (cy, cx) gives
\* in a patch of the given size: its own stored values that are not zero,
\* moved, those that leave the patch dropped.
OwnPatch(sf, j, cyx, size, width) ==
  LET half(a) == (size[a] + 1) \div 2
      at(k) == <<(sf.rows[j].ents[k][1] \div width) - cyx[1] + half(1),
                 (sf.rows[j].ents[k][1] % width) - cyx[2] + half(2)>>
  IN {<<j, at(k)[1], at(k)[2], sf.rows[j].ents[k][2], sf.rows[j].den>> :
        k \in {i \in DOMAIN sf.rows[j].ents :
                 /\ ~(sf.rows[j].den > 0 /\ sf.rows[j].ents[i][2] = 0)
                 /\ at(i)[1] >= 0 /\ at(i)[1] < size[1]
                 /\ at(i)[2] >= 0 /\ at(i)[2] < size[2]}}

(***************************************************************************)
(* C16.  Whenever ROI_images exist, the array of every session has the     *)
(* requested patch size and the image of ROI i holds, at (r, c), the       *)
(* weight of ROI i itself at the pixel (r + cy - ceil(out_height/2),       *)
(* c + cx - ceil(out_width/2)) of the frame, (cy, cx) being the centroid   *)
(* of ROI i, and zero where that pixel is outside the frame or holds none. *)
(***************************************************************************)
C16_CenteredOnOwnCentroid ==
  "ROI_images" \in attrs =>
    \A s \in DOMAIN ROI_images :
      /\ ROI_images[s].shape[2] = args.out_height_width[1]
      /\ ROI_images[s].shape[3] = args.out_height_width[2]
      /\ ROI_images[s].ents =
           UNION {OwnPatch(spatialFootprints[s], j, centroids[s][j], args.out_height_width,
                           FOV_width) : j \in DOMAIN spatialFootprints[s].rows}

\* The stat records are ones _helper_populate_sf has no other reason to
\* refuse: every session has a ROI and every pixel, once shifted, is in the
\* frame.
StatInFrame ==
  \A s \in DOMAIN statFiles :
    /\ Len(statFiles[s]) >= 1
    /\ \A j \in DOMAIN statFiles[s] : \A k \in DOMAIN statFiles[s][j] :
         /\ U64(statFiles[s][j][k][1] + shifts[s][1]) < frame_height_width[1]
         /\ U64(statFiles[s][j][k][2] + shifts[s][2]) < frame_height_width[2]

C19_FootprintsFitFOV ==
  (args.cls = "suite2p" /\ pc = "done") =>
    \A s \in DOMAIN spatialFootprints :
      spatialFootprints[s].shape[2] = FOV_height * FOV_width

====
